---------------------------- MODULE Spec2Model ----------------------------
(***************************************************************************)
(* LumiChat: the streaming relay (pages/api/chat.ts) and the client's      *)
(* stream renderer (pages/index.tsx).                                      *)
(*                                                                         *)
(* Text is a sequence of one-character strings, so that the regular        *)
(* expressions, the line splitting and the JSON framing of the code are    *)
(* modelled by what they do to characters.                                 *)
(***************************************************************************)
EXTENDS Naturals, Sequences, FiniteSets

(***************************************************************************)
(* Bounds of the model.                                                    *)
(***************************************************************************)
MaxTurns  == 2   \* sendMessage invocations / relay requests
MaxChunks == 2   \* upstream chunks the provider yields, over all requests
MaxPieces == 5   \* pieces a text given to splitThinkBlocks is made of

Turns == 1..MaxTurns

(***************************************************************************)
(* Characters and fixed texts.                                             *)
(***************************************************************************)
LF == "\n"
CR == "\r"
DQ == "\""
BS == "\\"
SP == " "
BT == "BACKTICK"                               \* the backtick character
DL == "$"

Empty == << >>

Fence      == <<BT, BT, BT>>                    \* the code-fence delimiter, three backticks
MathDelim  == <<DL, DL>>                        \* /\$\$/
ThinkOpen  == <<"<", "t", "h", "i", "n", "k", ">">>
ThinkClose == <<"<", "/", "t", "h", "i", "n", "k", ">">>
DataPrefix == <<"d", "a", "t", "a", ":">>
DoneText   == <<"[", "D", "O", "N", "E", "]">>
DeltaKey   == <<"d", "e", "l", "t", "a">>
ErrorKey   == <<"e", "r", "r", "o", "r">>
Undefined  == <<"u", "n", "d", "e", "f", "i", "n", "e", "d">>
GenericError ==
    <<"O", "p", "e", "n", "A", "I", SP, "A", "P", "I", SP, "e", "r", "r", "o", "r">>
MethodNotAllowed ==
    <<"M", "e", "t", "h", "o", "d", SP, "N", "o", "t", SP,
      "A", "l", "l", "o", "w", "e", "d">>

(***************************************************************************)
(* String helpers of the JavaScript runtime.                               *)
(***************************************************************************)
IsPrefix(p, s) == Len(p) <= Len(s) /\ SubSeq(s, 1, Len(p)) = p

StartsWith(s, p) == IsPrefix(p, s)

Slice(s, n) == SubSeq(s, n + 1, Len(s))         \* s.slice(n)

ToLower(c) ==
    CASE c = "T" -> "t"
      [] c = "H" -> "h"
      [] c = "I" -> "i"
      [] c = "N" -> "n"
      [] c = "K" -> "k"
      [] OTHER   -> c

LowerText(s) == [i \in 1..Len(s) |-> ToLower(s[i])]

MatchAt(s, i, pat) ==
    /\ i + Len(pat) - 1 <= Len(s)
    /\ SubSeq(s, i, i + Len(pat) - 1) = pat

Min(S) == CHOOSE x \in S : \A y \in S : x <= y

\* Index of the first occurrence of pat in s at or after i; 0 when none.
IndexFrom(s, i, pat) ==
    LET hits == {j \in i..(Len(s) - Len(pat) + 1) : MatchAt(s, j, pat)}
    IN  IF hits = {} THEN 0 ELSE Min(hits)

\* (md.match(/pat/g) || []).length: non-overlapping matches, left to right.
RECURSIVE CountFrom(_, _, _)
CountFrom(s, i, pat) ==
    LET j == IndexFrom(s, i, pat)
    IN  IF j = 0 THEN 0 ELSE 1 + CountFrom(s, j + Len(pat), pat)

CountMatches(s, pat) == CountFrom(s, 1, pat)

\* input.trim(): the only whitespace characters are SP, LF and CR.
IsSpace(c) == c \in {SP, LF, CR}

RECURSIVE TrimLeft(_)
TrimLeft(s) ==
    IF s # Empty /\ IsSpace(Head(s)) THEN TrimLeft(Tail(s)) ELSE s

RECURSIVE TrimRight(_)
TrimRight(s) ==
    IF s # Empty /\ IsSpace(s[Len(s)])
    THEN TrimRight(SubSeq(s, 1, Len(s) - 1))
    ELSE s

Trim(s) == TrimRight(TrimLeft(s))

RECURSIVE Concat(_)
Concat(ss) == IF ss = << >> THEN Empty ELSE Head(ss) \o Concat(Tail(ss))


(***************************************************************************)
(* index.tsx: the safety predicate and the segmenter.                      *)
(***************************************************************************)
FenceCount(md) == CountMatches(md, Fence)
MathCount(md)  == CountMatches(md, MathDelim)

isBalancedFencesOnly(md) == FenceCount(md) % 2 = 0

isBalancedMathOnly(md) == MathCount(md) % 2 = 0

isBalanced(md) == FenceCount(md) % 2 = 0 /\ MathCount(md) % 2 = 0

\* a segment that is never a think segment
SegmentPlain(c, t) == [content |-> c, isThink |-> FALSE]

Segment(c, t) == [content |-> c, isThink |-> t]

\* The loop of splitThinkBlocks from regex.lastIndex = last (0-based): the
\* leftmost opening tag that has a closing tag after it, closed by the
\* nearest closing tag (non-greedy), matched without regard to case.
RECURSIVE SplitThinkFrom(_, _)
SplitThinkFrom(md, last) ==
    LET low == LowerText(md)
        o   == IndexFrom(low, last + 1, ThinkOpen)
        c   == IF o = 0 THEN 0 ELSE IndexFrom(low, o + Len(ThinkOpen), ThinkClose)
    IN  IF o = 0 \/ c = 0
        THEN IF last < Len(md) THEN <<Segment(Slice(md, last), FALSE)>> ELSE << >>
        ELSE (IF o - 1 > last
              THEN <<Segment(SubSeq(md, last + 1, o - 1), FALSE)>>
              ELSE << >>)
             \o <<Segment(SubSeq(md, o + Len(ThinkOpen), c - 1), TRUE)>>
             \o SplitThinkFrom(md, c + Len(ThinkClose) - 1)

\* splitThinkBlocks without the push of the text after the last match
splitThinkNoTail(md) ==
    LET segs == SplitThinkFrom(md, 0)
    IN  IF segs # << >> /\ ~segs[Len(segs)].isThink
        THEN SubSeq(segs, 1, Len(segs) - 1)
        ELSE segs

splitThinkBlocks(md) == SplitThinkFrom(md, 0)

(***************************************************************************)
(* The wire: JSON.stringify and JSON.parse of the one-field objects the    *)
(* relay writes, the SSE framing, and the split of a buffer into lines.    *)
(***************************************************************************)
EscapeChar(c) ==
    CASE c = DQ -> <<BS, DQ>>
      [] c = BS -> <<BS, BS>>
      [] c = LF -> <<BS, "n">>
      [] c = CR -> <<BS, "r">>
      [] OTHER  -> <<c>>

RECURSIVE EscapeText(_)
EscapeText(s) ==
    IF s = Empty THEN Empty ELSE EscapeChar(Head(s)) \o EscapeText(Tail(s))

\* JSON.stringify({ key: text })
JsonStringify(key, text) ==
    <<"{", DQ>> \o key \o <<DQ, ":", DQ>> \o EscapeText(text) \o <<DQ, "}">>

UnescapeChar(c) ==
    CASE c = "n" -> LF
      [] c = "r" -> CR
      [] OTHER   -> c

\* A JSON string whose opening quote is at s[i - 1]: the text up to the
\* closing quote and the index after it.
RECURSIVE ParseString(_, _)
ParseString(s, i) ==
    IF i > Len(s) \/ s[i] \in {LF, CR}
    THEN [ok |-> FALSE, text |-> Empty, next |-> i]
    ELSE IF s[i] = DQ
    THEN [ok |-> TRUE, text |-> Empty, next |-> i + 1]
    ELSE IF s[i] = BS
    THEN IF i + 1 <= Len(s) /\ s[i + 1] \in {DQ, BS, "n", "r"}
         THEN LET r == ParseString(s, i + 2)
              IN  [r EXCEPT !.text = <<UnescapeChar(s[i + 1])>> \o r.text]
         ELSE [ok |-> FALSE, text |-> Empty, next |-> i]
    ELSE LET r == ParseString(s, i + 1)
         IN  [r EXCEPT !.text = <<s[i]>> \o r.text]

ParseThrows == [ok |-> FALSE, key |-> Empty, value |-> Empty]

\* JSON.parse(payload) for an object with one string field, written without
\* white space; every other payload of the model is not JSON and throws.
JsonParse(p) ==
    IF ~(Len(p) >= 2 /\ p[1] = "{" /\ p[2] = DQ) THEN ParseThrows
    ELSE LET k == ParseString(p, 3)
         IN  IF ~k.ok \/ ~MatchAt(p, k.next, <<":", DQ>>) THEN ParseThrows
             ELSE LET v == ParseString(p, k.next + 2)
                  IN  IF ~v.ok \/ SubSeq(p, v.next, Len(p)) # <<"}">>
                      THEN ParseThrows
                      ELSE [ok |-> TRUE, key |-> k.text, value |-> v.text]

\* `data: ${payload}\n\n`
SseFrame(payload) == DataPrefix \o <<SP>> \o payload \o <<LF, LF>>

DeltaFrame(text) == [type |-> "delta", text |-> text]
ErrorFrame(text) == [type |-> "error", text |-> text]
DoneFrame        == [type |-> "done",  text |-> Empty]

Encode(f) ==
    CASE f.type = "delta" -> SseFrame(JsonStringify(DeltaKey, f.text))
      [] f.type = "error" -> SseFrame(JsonStringify(ErrorKey, f.text))
      [] f.type = "done"  -> SseFrame(DoneText)

IsTerminal(f) == f.type \in {"done", "error"}

\* buf.split(/\r?\n/): the pieces between line ends, the last one being
\* what follows the last line end.
RECURSIVE SplitFrom(_, _)
SplitFrom(s, st) ==
    LET e == IndexFrom(s, st, <<LF>>)
    IN  IF e = 0 THEN <<SubSeq(s, st, Len(s))>>
        ELSE <<SubSeq(s, st, IF e > st /\ s[e - 1] = CR THEN e - 2 ELSE e - 1)>>
             \o SplitFrom(s, e + 1)

SplitLines(s) == SplitFrom(s, 1)

\* lines.pop(): the pieces but the last, and the last.
CompleteLines(pieces) == SubSeq(pieces, 1, Len(pieces) - 1)

CarryDropped(pieces) == Empty

Carry(pieces) == pieces[Len(pieces)]

\* line.replace(/^data:\s*/, '')
Payload(line) == TrimLeft(Slice(line, Len(DataPrefix)))

\* What one line of the response does to the turn (lines 184-208).
LineEvent(line) ==
    IF ~StartsWith(line, DataPrefix) THEN [type |-> "skip", text |-> Empty]
    ELSE LET payload == Payload(line)
         IN  IF payload = DoneText THEN DoneFrame
             ELSE LET j == JsonParse(payload)
                  IN  IF ~j.ok THEN [type |-> "throw", text |-> Empty]
                      ELSE IF j.key = ErrorKey /\ j.value # Empty
                      THEN ErrorFrame(j.value)
                      ELSE IF j.key = DeltaKey THEN DeltaFrame(j.value)
                      ELSE DeltaFrame(Undefined)


(***************************************************************************)
(* Inputs of the model.                                                    *)
(***************************************************************************)
\* What the user may type: a blank text and a text.
Inputs == {<<SP>>, <<"h", "i">>}

\* part.choices?.[0]?.delta?.content of an upstream chunk: a text, or absent.
Content(text) == [has |-> TRUE, text |-> text]
NoContent     == [has |-> FALSE, text |-> Empty]

\* The texts a provider's chunks carry, one vocabulary per behaviour.
VocabFence == {<<"a", LF>>, <<BT, BT>>, <<BT>>}
VocabMath  == {MathDelim, Fence, Empty}
VocabThink == {Fence \o ThinkOpen, <<"a">> \o ThinkClose \o Fence, <<"b">>}
VocabReason == {ThinkOpen \o <<"r">>, ThinkClose \o <<"b">>}

Vocabularies == {VocabFence, VocabMath, VocabThink, VocabReason}

Methods == {"GET", "POST"}

StatusOk               == 200
StatusNoContent        == 204
StatusMethodNotAllowed == 405

\* The statuses whose Response has a null body (Fetch: null body status).
NullBodyStatus == {StatusNoContent}

(***************************************************************************)
(* State.                                                                  *)
(***************************************************************************)
VARIABLES
    messages,          \* useState<Message[]>               (index.tsx:125)
    input,             \* useState('')                      (index.tsx:126)
    loading,           \* useState(false)                   (index.tsx:127)
    fullContent,       \* useState('')                      (index.tsx:129)
    renderedContent,   \* useState('')                      (index.tsx:130)
    pc,                \* per sendMessage call: where it is suspended
    closureFull,       \* per call: the fullContent its closure captured
    buf,               \* per call: let buf                 (index.tsx:174)
    lines,             \* per call: the lines the for loop has yet to take
    events,            \* per call: the wire events dispatched so far
    wire,              \* per response: bytes written and not yet read
    sent,              \* per response: every byte written so far
    rpc,               \* per request: where the relay handler is suspended
    method,            \* per request: req.method
    status,            \* per response: status code, 0 before the head is sent
    allow,             \* per response: the Allow header, Empty when unset
    upstream,          \* per request: the chunks the provider has yielded
    frames,            \* per response: the SSE frames written by res.write
    vocab              \* the vocabulary of the provider in this behaviour

reactVars  == <<messages, input, loading, fullContent, renderedContent>>
callVars   == <<pc, closureFull, buf, lines, events>>
clientVars == <<reactVars, callVars>>
netVars    == <<wire, sent>>
relayVars  == <<rpc, method, status, allow, upstream, frames, vocab>>
vars       == <<clientVars, netVars, relayVars>>

Message(role, content) == [role |-> role, content |-> content]

\* The state after construction, but for the text in the textarea and the
\* provider's vocabulary.
InitRest ==
    /\ messages = << >>
    /\ loading = FALSE
    /\ fullContent = Empty
    /\ renderedContent = Empty
    /\ pc = [t \in Turns |-> "idle"]
    /\ closureFull = [t \in Turns |-> Empty]
    /\ buf = [t \in Turns |-> Empty]
    /\ lines = [t \in Turns |-> << >>]
    /\ events = [t \in Turns |-> << >>]
    /\ wire = [t \in Turns |-> Empty]
    /\ sent = [t \in Turns |-> Empty]
    /\ rpc = [t \in Turns |-> "none"]
    /\ method = [t \in Turns |-> "none"]
    /\ status = [t \in Turns |-> 0]
    /\ allow = [t \in Turns |-> Empty]
    /\ upstream = [t \in Turns |-> << >>]
    /\ frames = [t \in Turns |-> << >>]

Init ==
    /\ InitRest
    /\ input = Empty
    /\ vocab \in Vocabularies

(***************************************************************************)
(* The client: Home and sendMessage (index.tsx).                           *)
(***************************************************************************)
ControlsAlwaysEnabled == TRUE

\* disabled={loading} on the textarea and on the send button.
ControlsEnabled == ~loading

\* onInput: setInput(e.currentTarget.value)
TypeInput(text) ==
    /\ ControlsEnabled
    /\ input # text
    /\ input' = text
    /\ UNCHANGED <<messages, loading, fullContent, renderedContent>>
    /\ UNCHANGED <<callVars, netVars, relayVars>>

\* an updater that returns the list as it was
SetLastKept(m, v) == m

\* an updater that writes to the first assistant message
SetSecond(m, v) == [m EXCEPT ![2].content = v]

\* c[c.length - 1].content = v on a copy of the list
SetLast(m, v) == [m EXCEPT ![Len(m)].content = v]

\* an update that keeps the delta alone
replaceDelta(prev, delta) == delta

\* const u = prev + delta, and c[c.length - 1].content += delta
appendDelta(prev, delta) == prev \o delta

\* setRenderedContent(prev => fullContent && isBalanced(fullContent) ?
\* fullContent : prev), fullContent being the value the closure captured.
finalFlush(captured, prev) ==
    IF captured # Empty /\ isBalanced(captured) THEN captured ELSE prev

\* sendMessage up to its first await: the turn starts and the request is sent.
Submit(t) ==
    /\ ControlsEnabled
    /\ pc[t] = "idle"
    /\ \A u \in Turns : u < t => pc[u] # "idle"
    /\ Trim(input) # Empty
    /\ messages' = Append(Append(messages, Message("user", input)),
                          Message("assistant", Empty))
    /\ input' = Empty
    /\ loading' = TRUE
    /\ fullContent' = Empty
    /\ renderedContent' = Empty
    /\ pc' = [pc EXCEPT ![t] = "fetch"]
    /\ closureFull' = [closureFull EXCEPT ![t] = fullContent]
    /\ rpc' = [rpc EXCEPT ![t] = "start"]
    /\ method' = [method EXCEPT ![t] = "POST"]
    /\ UNCHANGED <<buf, lines, events, netVars>>
    /\ UNCHANGED <<status, allow, upstream, frames, vocab>>

\* await fetch(...) resolves once the response head has arrived.
FetchResolve(t) ==
    /\ pc[t] = "fetch"
    /\ status[t] # 0
    /\ status[t] \notin NullBodyStatus
    /\ pc' = [pc EXCEPT ![t] = "read"]
    /\ UNCHANGED <<reactVars, closureFull, buf, lines, events>>
    /\ UNCHANGED <<netVars, relayVars>>

\* if (!res.body) return setLoading(false)
FetchNoBody(t) ==
    /\ pc[t] = "fetch"
    /\ status[t] \in NullBodyStatus
    /\ pc' = [pc EXCEPT ![t] = "done"]
    /\ loading' = FALSE
    /\ UNCHANGED <<messages, input, fullContent, renderedContent>>
    /\ UNCHANGED <<closureFull, buf, lines, events, netVars, relayVars>>

\* await fetch(...) rejects: sendMessage has no handler, its promise rejects.
FetchReject(t) ==
    /\ pc[t] = "fetch"
    /\ pc' = [pc EXCEPT ![t] = "crashed"]
    /\ UNCHANGED <<reactVars, closureFull, buf, lines, events>>
    /\ UNCHANGED <<netVars, relayVars>>

\* a terminal event after which the for loop goes on with the next line
ReturnContinue(t) ==
    IF lines[t] = << >>
    THEN /\ pc' = [pc EXCEPT ![t] = "done"]
         /\ buf' = [buf EXCEPT ![t] = Empty]
         /\ lines' = [lines EXCEPT ![t] = << >>]
         /\ wire' = [wire EXCEPT ![t] = Empty]
    ELSE /\ pc' = [pc EXCEPT ![t] = IF Tail(lines[t]) = << >> THEN "read" ELSE "loop"]
         /\ lines' = [lines EXCEPT ![t] = Tail(lines[t])]
         /\ buf' = buf
         /\ wire' = wire

\* sendMessage returns: its locals and the unread rest of the body are gone.
Return(t) ==
    /\ pc' = [pc EXCEPT ![t] = "done"]
    /\ buf' = [buf EXCEPT ![t] = Empty]
    /\ lines' = [lines EXCEPT ![t] = << >>]
    /\ wire' = [wire EXCEPT ![t] = Empty]

\* await reader.read() resolves. k > 0: with the next k bytes, which are
\* decoded, appended to buf and split, the last piece staying in buf.
\* k = 0: with done, at the end of the body; the loop ends, and the final
\* flush and setLoading(false) follow.
Read(t, k) ==
    /\ pc[t] = "read"
    /\ k \in 0..Len(wire[t])
    /\ IF k = 0
       THEN /\ wire[t] = Empty
            /\ rpc[t] = "ended"
            /\ renderedContent' = finalFlush(closureFull[t], renderedContent)
            /\ loading' = FALSE
            /\ Return(t)
            /\ UNCHANGED <<messages, input, fullContent>>
       ELSE LET pieces == SplitLines(buf[t] \o SubSeq(wire[t], 1, k))
            IN  /\ buf' = [buf EXCEPT ![t] = Carry(pieces)]
                /\ lines' = [lines EXCEPT ![t] = CompleteLines(pieces)]
                /\ pc' = [pc EXCEPT ![t] =
                             IF CompleteLines(pieces) = << >> THEN "read" ELSE "loop"]
                /\ wire' = [wire EXCEPT ![t] = Slice(wire[t], k)]
                /\ UNCHANGED reactVars
    /\ UNCHANGED <<closureFull, events, sent, relayVars>>

\* reader.read() rejects (the connection breaks): the promise rejects.
ReadReject(t) ==
    /\ pc[t] = "read"
    /\ pc' = [pc EXCEPT ![t] = "crashed"]
    /\ UNCHANGED <<reactVars, closureFull, buf, lines, events>>
    /\ UNCHANGED <<netVars, relayVars>>

\* One iteration of for (const line of lines), and what follows the loop
\* when the iteration ends it.
LoopStep(t) ==
    /\ pc[t] = "loop"
    /\ LET ev   == LineEvent(Head(lines[t]))
           rest == Tail(lines[t])
           next == IF rest = << >> THEN "read" ELSE "loop"
       IN  CASE ev.type = "skip" ->
                  /\ lines' = [lines EXCEPT ![t] = rest]
                  /\ pc' = [pc EXCEPT ![t] = next]
                  /\ UNCHANGED <<reactVars, events, buf, wire>>
             [] ev.type = "throw" ->
                  /\ pc' = [pc EXCEPT ![t] = "crashed"]
                  /\ events' = [events EXCEPT ![t] = Append(@, ev)]
                  /\ UNCHANGED <<reactVars, lines, buf, wire>>
             [] ev.type = "done" ->
                  /\ renderedContent' = finalFlush(closureFull[t], renderedContent)
                  /\ loading' = FALSE
                  /\ Return(t)
                  /\ events' = [events EXCEPT ![t] = Append(@, ev)]
                  /\ UNCHANGED <<messages, input, fullContent>>
             [] ev.type = "error" ->
                  /\ messages' = SetLast(messages, ev.text)
                  /\ renderedContent' = finalFlush(closureFull[t], renderedContent)
                  /\ loading' = FALSE
                  /\ Return(t)
                  /\ events' = [events EXCEPT ![t] = Append(@, ev)]
                  /\ UNCHANGED <<input, fullContent>>
             [] ev.type = "delta" ->
                  /\ fullContent' = appendDelta(fullContent, ev.text)
                  /\ renderedContent' =
                         IF isBalanced(appendDelta(fullContent, ev.text))
                         THEN appendDelta(fullContent, ev.text)
                         ELSE renderedContent
                  /\ messages' =
                         SetLast(messages,
                                 appendDelta(messages[Len(messages)].content, ev.text))
                  /\ lines' = [lines EXCEPT ![t] = rest]
                  /\ pc' = [pc EXCEPT ![t] = next]
                  /\ events' = [events EXCEPT ![t] = Append(@, ev)]
                  /\ UNCHANGED <<input, loading, buf, wire>>
    /\ UNCHANGED <<closureFull, sent, relayVars>>

(***************************************************************************)
(* The relay: handler (pages/api/chat.ts).                                 *)
(***************************************************************************)
\* The bytes res.write puts on the wire for the frames added to old.
Written(old, new) ==
    Concat([i \in 1..(Len(new) - Len(old)) |-> Encode(new[Len(old) + i])])

\* if (delta) res.write(...) with the falsy test dropped
writeDeltaAlways(fs, part) ==
    Append(fs, DeltaFrame(IF part.has THEN part.text ELSE Undefined))

\* const delta = part.choices?.[0]?.delta?.content; if (delta) res.write(...)
writeDelta(fs, part) ==
    IF part.has /\ part.text # Empty THEN Append(fs, DeltaFrame(part.text)) ELSE fs

\* res.write(`data: [DONE]\n\n`)
writeDone(fs) == Append(fs, DoneFrame)

\* a catch block that ends the response without a frame
catchSilent(fs) == fs

\* catch (e): res.write(`data: ${JSON.stringify({ error: ... })}\n\n`)
catchWrite(fs) == Append(fs, ErrorFrame(GenericError))

Put(r, fs) ==
    /\ frames' = [frames EXCEPT ![r] = fs]
    /\ wire' = [wire EXCEPT ![r] = @ \o Written(frames[r], fs)]
    /\ sent' = [sent EXCEPT ![r] = @ \o Written(frames[r], fs)]

ChunksYielded == Len(Concat([r \in Turns |-> upstream[r]]))

ChunkChoices == {Content(x) : x \in vocab} \cup {NoContent}

\* a method check that lets every method through
IsPostAlways(m) == TRUE

\* the test of if (req.method !== "POST")
IsPost(m) == m = "POST"

\* The handler up to its first await: the method check, or the SSE head.
HandlerEntry(r) ==
    /\ rpc[r] = "start"
    /\ IF ~IsPost(method[r])
       THEN /\ status' = [status EXCEPT ![r] = StatusMethodNotAllowed]
            /\ allow' = [allow EXCEPT ![r] = <<"POST">>]
            /\ wire' = [wire EXCEPT ![r] =
                           @ \o JsonStringify(ErrorKey, MethodNotAllowed)]
            /\ sent' = [sent EXCEPT ![r] =
                           @ \o JsonStringify(ErrorKey, MethodNotAllowed)]
            /\ rpc' = [rpc EXCEPT ![r] = "ended"]
       ELSE /\ status' = [status EXCEPT ![r] = StatusOk]
            /\ rpc' = [rpc EXCEPT ![r] = "create"]
            /\ UNCHANGED <<allow, wire, sent>>
    /\ UNCHANGED <<clientVars, method, upstream, frames, vocab>>

\* await openai.chat.completions.create(...) resolves with a stream.
CreateOk(r) ==
    /\ rpc[r] = "create"
    /\ rpc' = [rpc EXCEPT ![r] = "iter"]
    /\ UNCHANGED <<clientVars, netVars>>
    /\ UNCHANGED <<method, status, allow, upstream, frames, vocab>>

\* create(...) rejects: catch, one error frame, res.end().
CreateFail(r) ==
    /\ rpc[r] = "create"
    /\ Put(r, catchWrite(frames[r]))
    /\ rpc' = [rpc EXCEPT ![r] = "ended"]
    /\ UNCHANGED <<clientVars, method, status, allow, upstream, vocab>>

\* for await (const part of stream): one chunk.
Chunk(r, part) ==
    /\ rpc[r] = "iter"
    /\ ChunksYielded < MaxChunks
    /\ upstream' = [upstream EXCEPT ![r] = Append(@, part)]
    /\ Put(r, writeDelta(frames[r], part))
    /\ UNCHANGED <<clientVars, rpc, method, status, allow, vocab>>

\* The stream is exhausted: the [DONE] frame, res.end().
Exhaust(r) ==
    /\ rpc[r] = "iter"
    /\ Put(r, writeDone(frames[r]))
    /\ rpc' = [rpc EXCEPT ![r] = "ended"]
    /\ UNCHANGED <<clientVars, method, status, allow, upstream, vocab>>

\* The stream throws while it is consumed: catch, error frame, res.end().
IterFail(r) ==
    /\ rpc[r] = "iter"
    /\ Put(r, catchWrite(frames[r]))
    /\ rpc' = [rpc EXCEPT ![r] = "ended"]
    /\ UNCHANGED <<clientVars, method, status, allow, upstream, vocab>>

(***************************************************************************)
(* Spec: the client against the relay.                                     *)
(***************************************************************************)
ClientStep ==
    \/ \E text \in Inputs : TypeInput(text)
    \/ \E t \in Turns : Submit(t)
    \/ \E t \in Turns : FetchResolve(t)
    \/ \E t \in Turns : FetchReject(t)
    \/ \E t \in Turns : ReadReject(t)
    \/ \E t \in Turns : LoopStep(t)

RelayStep ==
    \/ \E r \in Turns : HandlerEntry(r)
    \/ \E r \in Turns : CreateOk(r)
    \/ \E r \in Turns : CreateFail(r)
    \/ \E r \in Turns : \E part \in ChunkChoices : Chunk(r, part)
    \/ \E r \in Turns : Exhaust(r)
    \/ \E r \in Turns : IterFail(r)

\* A read yields all the bytes that have arrived: the relay writes whole
\* frames, so reads end on frame boundaries here (SpecWire cuts anywhere).
Next ==
    \/ ClientStep
    \/ \E t \in Turns : Read(t, Len(wire[t]))
    \/ RelayStep

Spec == Init /\ [][Next]_vars

(***************************************************************************)
(* SpecRelay: the relay alone, answering requests of any method.           *)
(***************************************************************************)
\* A request reaches the handler.
DirectRequest(r, m) ==
    /\ rpc[r] = "none"
    /\ \A u \in Turns : u < r => rpc[u] # "none"
    /\ rpc' = [rpc EXCEPT ![r] = "start"]
    /\ method' = [method EXCEPT ![r] = m]
    /\ UNCHANGED <<clientVars, netVars, status, allow, upstream, frames, vocab>>

NextRelay ==
    \/ \E r \in Turns : \E m \in Methods : DirectRequest(r, m)
    \/ RelayStep

SpecRelay == Init /\ [][NextRelay]_vars

(***************************************************************************)
(* SpecWire: the client against an origin that answers with any of a few   *)
(* byte streams, delivered to reader.read() in pieces cut anywhere.        *)
(***************************************************************************)
CRLF == <<CR, LF>>

\* What the relay writes for two deltas and the end of the stream.
StreamRelay ==
    Encode(DeltaFrame(<<"a", LF>>)) \o Encode(DeltaFrame(Fence)) \o Encode(DoneFrame)

\* CR LF line ends, a comment line, no space and two spaces after data:.
StreamCRLF ==
    <<":", "k">> \o CRLF
    \o DataPrefix \o JsonStringify(DeltaKey, <<"a">>) \o CRLF \o CRLF
    \o DataPrefix \o <<SP, SP>> \o JsonStringify(DeltaKey, <<DL, DL>>) \o CRLF
    \o DataPrefix \o <<SP>> \o DoneText \o CRLF

\* Frames after an error frame.
StreamErrorThenMore ==
    Encode(DeltaFrame(MathDelim)) \o Encode(ErrorFrame(<<"x">>))
    \o Encode(DeltaFrame(<<"b">>))

\* The body ends inside a line.
StreamTruncated ==
    Encode(DeltaFrame(<<"a">>))
    \o DataPrefix \o <<SP>> \o JsonStringify(DeltaKey, <<"b">>)

\* A data line whose payload is not JSON, between two good frames.
StreamMalformed ==
    Encode(DeltaFrame(<<"a">>)) \o SseFrame(<<"{", DQ, "d">>)
    \o Encode(DeltaFrame(<<"b">>)) \o Encode(DoneFrame)

WireStreams ==
    {StreamRelay, StreamCRLF, StreamErrorThenMore, StreamTruncated, StreamMalformed}

\* The origin answers a request with a whole body.
OriginAnswer(t, stream) ==
    /\ rpc[t] = "start"
    /\ status' = [status EXCEPT ![t] = StatusOk]
    /\ wire' = [wire EXCEPT ![t] = stream]
    /\ sent' = [sent EXCEPT ![t] = stream]
    /\ rpc' = [rpc EXCEPT ![t] = "ended"]
    /\ UNCHANGED <<clientVars, method, allow, upstream, frames, vocab>>

\* The origin answers with a status that has no body.
OriginNoBody(t) ==
    /\ rpc[t] = "start"
    /\ status' = [status EXCEPT ![t] = StatusNoContent]
    /\ rpc' = [rpc EXCEPT ![t] = "ended"]
    /\ UNCHANGED <<clientVars, netVars, method, allow, upstream, frames, vocab>>

InitWire == Init /\ vocab = VocabFence

NextWire ==
    \/ ClientStep
    \/ \E t \in Turns : FetchNoBody(t)
    \/ \E t \in Turns : \E k \in 0..Len(wire[t]) : Read(t, k)
    \/ \E t \in Turns : \E stream \in WireStreams : OriginAnswer(t, stream)
    \/ \E t \in Turns : OriginNoBody(t)

SpecWire == InitWire /\ [][NextWire]_vars


(***************************************************************************)
(* SpecSegments: splitThinkBlocks on the texts of a bounded set, each      *)
(* in the textarea at the start, submitted, and segmented when its message *)
(* is rendered.                                                            *)
(***************************************************************************)
ThinkOpenUpper == <<"<", "T", "H", "I", "N", "K", ">">>

SegmentPieces == {ThinkOpen, ThinkClose, ThinkOpenUpper, <<"a">>, <<LF>>}

\* Every text made of at most MaxPieces pieces.
SegmentTexts ==
    {Concat(ps) : ps \in UNION {[1..n -> SegmentPieces] : n \in 0..MaxPieces}}

\* The user has typed one of the texts.
InitSegments ==
    /\ InitRest
    /\ input \in SegmentTexts
    /\ vocab = VocabFence

NextSegments == \E t \in Turns : Submit(t)

SpecSegments == InitSegments /\ [][NextSegments]_vars

(***************************************************************************)
(* Render integration (index.tsx:233-273) and derived notions.             *)
(***************************************************************************)
\* isLastAI for message i
isLastAI(i) == i = Len(messages) /\ messages[i].role = "assistant"

\* const content = isLastAI ? renderedContent : m.content, then segmented:
\* the text chosen for message i, and the segments given to ReactMarkdown.
shown(i) == IF isLastAI(i) THEN renderedContent ELSE messages[i].content

segments(i) == splitThinkBlocks(shown(i))

\* {fullContent.slice(renderedContent.length)} inside the rawTail element,
\* present when fullContent !== renderedContent.
rawTail ==
    IF fullContent # renderedContent
    THEN Slice(fullContent, Len(renderedContent))
    ELSE Empty

Even(n) == n % 2 = 0

InFlight(t) == pc[t] \in {"fetch", "read", "loop"}

\* The step ends turn t in Completed or Failed (a terminal event or the end
\* of the body).
TurnEnds(t) == pc[t] \in {"read", "loop"} /\ pc'[t] = "done"

\* The step dispatches a Delta in turn t.
DeltaStep(t) ==
    /\ events'[t] # events[t]
    /\ events'[t][Len(events'[t])].type = "delta"

\* The frames of a response body: every complete data line, decoded.
RECURSIVE FramesOf(_)
FramesOf(ls) ==
    IF ls = << >> THEN << >>
    ELSE LET ev == LineEvent(Head(ls))
         IN  (IF ev.type = "skip" THEN << >> ELSE <<ev>>) \o FramesOf(Tail(ls))

WireFrames(bytes) == FramesOf(CompleteLines(SplitLines(bytes)))

\* The events a sequence of complete lines dispatches: the frames up to and
\* including the first that ends the loop.
RECURSIVE DispatchAll(_)
DispatchAll(ls) ==
    IF ls = << >> THEN << >>
    ELSE LET ev == LineEvent(Head(ls))
         IN  IF ev.type = "skip" THEN DispatchAll(Tail(ls))
             ELSE IF ev.type \in {"done", "error", "throw"} THEN <<ev>>
             ELSE <<ev>> \o DispatchAll(Tail(ls))

\* The decoding of a body received in one read.
Reference(bytes) == DispatchAll(CompleteLines(SplitLines(bytes)))

LoopEnded(evs) ==
    evs # << >> /\ evs[Len(evs)].type \in {"done", "error", "throw"}

\* The bytes of response t the client has taken from the body so far.
Consumed(t) == SubSeq(sent[t], 1, Len(sent[t]) - Len(wire[t]))

IsDelta(f) == f.type = "delta"

Truthy(part) == part.has /\ part.text # Empty

TextsOf(fs) == [i \in 1..Len(fs) |-> fs[i].text]

(***************************************************************************)
(* Claims.                                                                 *)
(***************************************************************************)

\* C1: in every reachable client state, over any number of turns and after a
\* turn's terminal event, renderedContent is a prefix of fullContent, and the
\* rendered safe text followed by the raw tail is exactly fullContent.
C1_SafeIsPrefixOfFull ==
    /\ IsPrefix(renderedContent, fullContent)
    /\ renderedContent \o rawTail = fullContent

\* C2: whatever the provider does, the body of the response to a POST has no
\* frame other than deltas before its last one, a terminal frame ([DONE] or
\* error) only as its last frame, and has that terminal frame exactly when
\* the handler has ended the response.
C2_OneTerminalFrameLast ==
    \A r \in Turns :
        method[r] = "POST" =>
            LET fs == WireFrames(sent[r])
            IN  /\ \A i \in 1..Len(fs) :
                       /\ fs[i].type \in {"delta", "done", "error"}
                       /\ IsTerminal(fs[i]) => i = Len(fs)
                /\ rpc[r] = "ended" <=> (fs # << >> /\ IsTerminal(fs[Len(fs)]))

\* C2 witness: a response ended by an error frame after a delta frame.
C2_Witness ==
    \E r \in Turns :
        /\ method[r] = "POST"
        /\ rpc[r] = "ended"
        /\ Len(WireFrames(sent[r])) >= 2
        /\ WireFrames(sent[r])[Len(WireFrames(sent[r]))].type = "error"

\* C3: the delta frames in the body of a response are, in order, exactly the
\* texts of the upstream chunks that carried non-empty text: one frame per
\* such chunk, none for a chunk with empty or absent text.
C3_DeltaPerNonEmptyChunk ==
    \A r \in Turns :
        method[r] = "POST" =>
            TextsOf(SelectSeq(WireFrames(sent[r]), IsDelta))
                = TextsOf(SelectSeq(upstream[r], Truthy))

\* C3 witness: a chunk without text, then a chunk whose text holds a line
\* feed, then the end of the stream.
C3_Witness ==
    \E r \in Turns :
        /\ rpc[r] = "ended"
        /\ Len(upstream[r]) = 2
        /\ ~Truthy(upstream[r][1])
        /\ Truthy(upstream[r][2])
        /\ \E i \in 1..Len(upstream[r][2].text) : upstream[r][2].text[i] = LF

\* C4: when a turn ends, the final re-check is made against that turn's
\* fullContent: afterwards renderedContent is fullContent if that is
\* balanced, and otherwise keeps the value it had before the re-check.
C4_FinalRecheckUsesLatestFull ==
    [][\A t \in Turns :
          TurnEnds(t) =>
              renderedContent' =
                  IF isBalanced(fullContent') THEN fullContent' ELSE renderedContent
      ]_vars

\* C5: within a turn the length of renderedContent never decreases from one
\* step to the next, the step of the terminal event and final re-check
\* included.
C5_SafeNeverShrinks ==
    [][\A t \in Turns :
          InFlight(t) => Len(renderedContent') >= Len(renderedContent)
      ]_vars

\* C6: after each Delta, renderedContent equals fullContent if and only if
\* fullContent has an even number of fence delimiters and an even number of
\* double-dollar delimiters; when it has not, renderedContent keeps the value
\* it had before the delta.
C6_SafeTracksBalance ==
    [][\A t \in Turns :
          DeltaStep(t) =>
              LET bal == /\ Even(FenceCount(fullContent'))
                         /\ Even(MathCount(fullContent'))
              IN  /\ (renderedContent' = fullContent') <=> bal
                  /\ ~bal => renderedContent' = renderedContent
      ]_vars

\* C6 witness: a delta has just left fullContent unbalanced, and
\* renderedContent holds an earlier, non-empty value.
C6_Witness ==
    \E t \in Turns :
        /\ pc[t] \in {"read", "loop"}
        /\ events[t] # << >>
        /\ events[t][Len(events[t])].type = "delta"
        /\ ~Even(FenceCount(fullContent))
        /\ renderedContent # Empty
        /\ renderedContent # fullContent

\* C7: for the last assistant message, every segment given to the Markdown
\* renderer has an even number of fence delimiters and an even number of
\* double-dollar delimiters.
C7_SegmentsBalanced ==
    (messages # << >> /\ isLastAI(Len(messages))) =>
        \A j \in 1..Len(segments(Len(messages))) :
            /\ Even(FenceCount(segments(Len(messages))[j].content))
            /\ Even(MathCount(segments(Len(messages))[j].content))

\* C8: the events dispatched depend only on the bytes taken from the body,
\* not on how they were cut into reads: at every point the events dispatched
\* so far, continued by the lines the loop still holds, are the decoding of
\* those bytes received in one read (complete lines only, lines without the
\* data: prefix ignored).
C8_DecodingIgnoresCuts ==
    \A t \in Turns :
        (IF pc[t] = "loop" /\ ~LoopEnded(events[t])
         THEN events[t] \o DispatchAll(lines[t])
         ELSE events[t]) = Reference(Consumed(t))

\* C8 witness: after a frame was dispatched, a read has ended between the CR
\* and the LF of a line end, the CR waiting in buf.
C8_Witness ==
    \E t \in Turns :
        /\ pc[t] = "read"
        /\ events[t] # << >>
        /\ buf[t] # Empty
        /\ buf[t][Len(buf[t])] = CR

\* C9: whenever the latest turn has ended, by a terminal event, by the end of
\* the body or by an exception of the request or of a read, loading is
\* cleared and the controls are enabled.
C9_EndedTurnClearsLoading ==
    \A t \in Turns :
        (/\ pc[t] \in {"done", "crashed"}
         /\ \A u \in Turns : u > t => pc[u] = "idle")
            => (~loading /\ ControlsEnabled)

NoOverlap ==
    /\ Cardinality({t \in Turns : InFlight(t)}) <= 1
    /\ (\E t \in Turns : InFlight(t)) => loading

\* C10: at most one turn is in flight, loading (which disables the input and
\* the send control) is set while it is, and every step that writes
\* fullContent, renderedContent or messages is a step of a sendMessage call
\* beside which no other call is in flight.
C10_TurnsNeverOverlap ==
    [][/\ NoOverlap
       /\ NoOverlap'
       /\ <<fullContent, renderedContent, messages>>'
              # <<fullContent, renderedContent, messages>>
          => \E t \in Turns :
                 /\ <<pc[t], buf[t], lines[t], events[t]>>'
                        # <<pc[t], buf[t], lines[t], events[t]>>
                 /\ \A u \in Turns \ {t} : ~InFlight(u) /\ ~InFlight(u)'
      ]_vars

\* C10 witness: the second turn is streaming, after the first has ended.
C10_Witness ==
    /\ pc[1] = "done"
    /\ pc[2] = "loop"
    /\ events[2] # << >>
    /\ loading

\* What the bubble of message i shows: the contents of its segments, and for
\* the last assistant message the raw tail after them (index.tsx:236-273).
displayed(i) ==
    Concat([j \in 1..Len(segments(i)) |-> segments(i)[j].content])
        \o (IF isLastAI(i) THEN rawTail ELSE Empty)

\* Turn t is the latest turn submitted.
Latest(t) == pc[t] # "idle" /\ \A u \in Turns : u > t => pc[u] = "idle"

\* Turn t has ended on a terminal event.
Terminated(t) ==
    events[t] # << >> /\ events[t][Len(events[t])].type \in {"done", "error"}

\* Turn t has ended in Failed: its last event is an Error.
Failed(t) ==
    pc[t] = "done" /\ events[t] # << >> /\ events[t][Len(events[t])].type = "error"

\* C11: when the latest turn has failed with an Error event, what is displayed
\* for the last assistant message is the text of the error, and the controls
\* are enabled.
C11_ErrorTextDisplayed ==
    \A t \in Turns :
        (Failed(t) /\ Latest(t)) =>
            /\ displayed(Len(messages)) = events[t][Len(events[t])].text
            /\ ControlsEnabled

\* The step is the upstream call of request r failing: create(...) rejecting
\* or the stream throwing while it is consumed.
UpstreamFails(r) == CreateFail(r) \/ IterFail(r)

\* C12: when the upstream call fails before any delta frame was written, the
\* body of the response is the single error frame with the generic message;
\* and once the client has ended the turn of such a response, that error is
\* the one event it dispatched, the content of the turn's assistant message
\* is the generic error text, the turn is Failed, and loading is cleared
\* while the turn is the latest.
C12_UpstreamFailureEndToEnd ==
    [][\A t \in Turns :
          /\ (UpstreamFails(t) /\ frames[t] = << >>) =>
                 /\ frames'[t] = <<ErrorFrame(GenericError)>>
                 /\ WireFrames(sent'[t]) = <<ErrorFrame(GenericError)>>
          /\ (pc'[t] = "done" /\ frames'[t] = <<ErrorFrame(GenericError)>>) =>
                 /\ events'[t] = <<ErrorFrame(GenericError)>>
                 /\ messages'[2 * t] = Message("assistant", GenericError)
                 /\ Failed(t)'
                 /\ Latest(t)' => ~loading'
      ]_vars

\* C12 witness: create(...) failed in the first turn, the relay wrote the
\* one error frame and the client has processed it.
C12_Witness ==
    /\ upstream[1] = << >>
    /\ frames[1] = <<ErrorFrame(GenericError)>>
    /\ pc[1] = "done"
    /\ messages[2].content = GenericError
    /\ ~loading

\* C13: a request whose method is not POST is answered with status 405 and
\* the header Allow: POST; the handler never calls the provider for it (it
\* never waits on create or on the stream, and no chunk is taken), and it
\* writes no frame: the body holds no data: line.
C13_NonPostRejected ==
    \A r \in Turns :
        method[r] \notin {"none", "POST"} =>
            /\ rpc[r] \in {"start", "ended"}
            /\ upstream[r] = << >>
            /\ frames[r] = << >>
            /\ ~StartsWith(sent[r], DataPrefix)
            /\ WireFrames(sent[r]) = << >>
            /\ rpc[r] = "start" => (status[r] = 0 /\ sent[r] = Empty)
            /\ rpc[r] = "ended" =>
                   /\ status[r] = StatusMethodNotAllowed
                   /\ allow[r] = <<"POST">>

\* C13 witness: a GET request has been answered, after a POST request was
\* streamed to.
C13_Witness ==
    /\ method[1] = "POST"
    /\ frames[1] # << >>
    /\ method[2] = "GET"
    /\ rpc[2] = "ended"
    /\ status[2] = StatusMethodNotAllowed

\* The segments written back as one text, each think segment between a
\* lower-case opening tag and a lower-case closing tag.
RECURSIVE Rebuild(_)
Rebuild(segs) ==
    IF segs = << >> THEN Empty
    ELSE (IF Head(segs).isThink
          THEN ThinkOpen \o Head(segs).content \o ThinkClose
          ELSE Head(segs).content)
         \o Rebuild(Tail(segs))

\* Text x stands in md right after its first p characters.
TextAt(md, p, x) ==
    p + Len(x) <= Len(md) /\ SubSeq(md, p + 1, p + Len(x)) = x

\* A tag stands in md right after its first p characters, in any letter case.
TagAt(md, p, tag) ==
    p + Len(tag) <= Len(md) /\ LowerText(SubSeq(md, p + 1, p + Len(tag))) = tag

\* The segments, in order, tile md from its first p characters on: a
\* non-think segment is a non-empty piece of md, a think segment is a piece
\* of md between an opening and a closing tag as md writes them.
RECURSIVE CoversFrom(_, _, _)
CoversFrom(md, segs, p) ==
    IF segs = << >> THEN p = Len(md)
    ELSE LET c == Head(segs).content
         IN  IF Head(segs).isThink
             THEN /\ TagAt(md, p, ThinkOpen)
                  /\ TextAt(md, p + Len(ThinkOpen), c)
                  /\ TagAt(md, p + Len(ThinkOpen) + Len(c), ThinkClose)
                  /\ CoversFrom(md, Tail(segs),
                                p + Len(ThinkOpen) + Len(c) + Len(ThinkClose))
             ELSE /\ c # Empty
                  /\ TextAt(md, p, c)
                  /\ CoversFrom(md, Tail(segs), p + Len(c))

\* C14 as stated: for every text rendered, the segment contents written in
\* order, with the opening and closing think tags put back around each think
\* segment, are the original text.
C14_SegmentsRebuildText ==
    \A i \in 1..Len(messages) : Rebuild(segments(i)) = shown(i)

\* C14 amended: for every text rendered, the segments tile the text in order
\* with no gap and no overlap, each think segment standing between an
\* opening and a closing tag written in the letter case the text has; the
\* rebuilt text is the original when its tags are in lower case, and equal to
\* it up to the letter case of the tags otherwise.
C14_SegmentsCoverText ==
    \A i \in 1..Len(messages) :
        /\ CoversFrom(shown(i), segments(i), 0)
        /\ LowerText(Rebuild(segments(i))) = LowerText(shown(i))
        /\ (\A p \in 0..Len(shown(i)) : ~TextAt(shown(i), p, ThinkOpenUpper))
               => Rebuild(segments(i)) = shown(i)

\* C14 witness: a rendered message with text before, inside and after a
\* think region whose opening tag is in upper case.
C14_Witness ==
    \E i \in 1..Len(messages) :
        /\ Len(segments(i)) = 3
        /\ segments(i)[2].isThink
        /\ segments(i)[2].content # Empty
        /\ Rebuild(segments(i)) # shown(i)

\* The texts of the deltas turn t has received, in arrival order.
DeltasReceived(t) == TextsOf(SelectSeq(events[t], IsDelta))

\* C15: while the latest turn has received no Error event, after every delta
\* and once it has ended on Done, fullContent is the concatenation of the
\* delta texts received, in arrival order, and the last message is the
\* assistant message whose content is fullContent; when the turn has ended on
\* Done, the deltas received are all the deltas the relay wrote.
C15_FullIsDeltasInOrder ==
    \A t \in Turns :
        (/\ Latest(t)
         /\ \A i \in 1..Len(events[t]) : events[t][i].type \in {"delta", "done"})
            => /\ fullContent = Concat(DeltasReceived(t))
               /\ Len(messages) = 2 * t
               /\ messages[2 * t] = Message("assistant", fullContent)
               /\ (pc[t] = "done" /\ Terminated(t)) =>
                      DeltasReceived(t) = TextsOf(SelectSeq(frames[t], IsDelta))

\* C15 witness: the second turn has ended on Done after two deltas, the
\* first turn having ended before it.
C15_Witness ==
    /\ pc[1] = "done"
    /\ pc[2] = "done"
    /\ Len(events[2]) = 3
    /\ events[2][3].type = "done"
    /\ events[2][1].text # events[2][2].text

\* Index of the first opening tag of md, in any letter case; 0 when none.
FirstOpen(md) == IndexFrom(LowerText(md), 1, ThinkOpen)

\* Index of the first closing tag of md after its first opening tag; 0 when
\* there is no opening tag or no closing tag after it.
FirstClose(md) ==
    IF FirstOpen(md) = 0 THEN 0
    ELSE IndexFrom(LowerText(md), FirstOpen(md) + Len(ThinkOpen), ThinkClose)

\* md has an opening tag and no closing tag after it.
Unterminated(md) == FirstOpen(md) # 0 /\ FirstClose(md) = 0

\* The one non-think segment of a text, none for the empty text.
Plain(md) == IF md = Empty THEN << >> ELSE <<Segment(md, FALSE)>>

\* The segments of a text whose first opening tag is closed: the text before
\* the tag, the think segment between the tags, the text after the closing
\* tag (segmented in its turn when it holds a closed region of its own).
Resegmented(md) ==
    LET o    == FirstOpen(md)
        c    == FirstClose(md)
        rest == Slice(md, c + Len(ThinkClose) - 1)
    IN  Plain(SubSeq(md, 1, o - 1))
        \o <<[content |-> SubSeq(md, o + Len(ThinkOpen), c - 1), isThink |-> TRUE]>>
        \o (IF FirstClose(rest) = 0 THEN Plain(rest) ELSE splitThinkBlocks(rest))

\* C16: while the text rendered for the last assistant message has an opening
\* think tag and no closing tag after it, it is rendered as one non-think
\* segment; and when a delta extends that text so that the closing tag is
\* there, the segments are the text before the opening tag, a think segment
\* holding the text between the tags, and a non-think segment for the text
\* after the closing tag.
C16_UnterminatedThinkIsPlain ==
    [][(messages # << >> /\ messages' # << >>
            /\ isLastAI(Len(messages)) /\ isLastAI(Len(messages))') =>
          /\ Unterminated(renderedContent') =>
                 segments(Len(messages))' = Plain(renderedContent')
          /\ (/\ Unterminated(renderedContent)
              /\ IsPrefix(renderedContent, renderedContent')
              /\ FirstClose(renderedContent') # 0) =>
                 segments(Len(messages))' = Resegmented(renderedContent')
      ]_vars

\* C16 witness: the reply was rendered with its opening tag unclosed, and the
\* next delta has brought the closing tag and the text after it.
C16_Witness ==
    \E t \in Turns :
        /\ pc[t] \in {"read", "loop"}
        /\ Len(events[t]) = 2
        /\ Unterminated(events[t][1].text)
        /\ isLastAI(Len(messages))
        /\ segments(Len(messages)) =
               <<[content |-> <<"r">>, isThink |-> TRUE],
                 [content |-> <<"b">>, isThink |-> FALSE]>>

\* C17: once a turn has processed a terminal event (Done or Error) its call
\* has returned and dispatches nothing more: no frame after the terminal one,
\* already read or still in the body, is applied. While the turn stays the
\* latest, fullContent, renderedContent and messages do not change, and the
\* messages of the turn and of the turns before it never change again.
C17_NothingAfterTerminal ==
    [][\A t \in Turns :
          Terminated(t) =>
              /\ pc[t] = "done" /\ pc'[t] = "done"
              /\ events'[t] = events[t]
              /\ SubSeq(messages', 1, 2 * t) = SubSeq(messages, 1, 2 * t)
              /\ (Latest(t) /\ Latest(t)') =>
                     UNCHANGED <<fullContent, renderedContent, messages>>
      ]_vars

\* C17 witness: a turn has ended on an Error event that was followed in the
\* body by a further delta frame, and the next turn is under way.
C17_Witness ==
    /\ Failed(1)
    /\ Len(WireFrames(sent[1])) > Len(events[1])
    /\ WireFrames(sent[1])[Len(events[1]) + 1].type = "delta"
    /\ pc[2] \in {"read", "loop"}
    /\ events[2] # << >>

Max(S) == CHOOSE x \in S : \A y \in S : x >= y

\* md has an even number of fence delimiters and of double-dollar delimiters.
EvenCounts(md) == Even(FenceCount(md)) /\ Even(MathCount(md))

\* The longest of the prefixes of md that have even counts.
LongestBalancedPrefix(md) ==
    SubSeq(md, 1, Max({n \in 0..Len(md) : EvenCounts(SubSeq(md, 1, n))}))

\* The prefixes of fullContent at which a delta of turn t ended, the empty
\* prefix included.
DeltaPrefixes(t) ==
    {Concat(SubSeq(DeltasReceived(t), 1, n)) : n \in 0..Len(DeltasReceived(t))}

\* The longest of those prefixes that has even counts.
LongestBalancedDeltaPrefix(t) ==
    CHOOSE p \in DeltaPrefixes(t) :
        /\ EvenCounts(p)
        /\ \A q \in DeltaPrefixes(t) : EvenCounts(q) => Len(q) <= Len(p)

\* C18 as stated: at every point of a turn, renderedContent is the longest
\* prefix of fullContent with even fence and double-dollar counts, whatever
\* the boundaries of the deltas.
C18_SafeIsLongestBalancedPrefix ==
    \A t \in Turns :
        (Latest(t) /\ InFlight(t)) =>
            renderedContent = LongestBalancedPrefix(fullContent)

\* C18 amended: at every point of a turn up to its terminal event,
\* renderedContent is the longest prefix of fullContent that ends where a
\* delta ended (or is empty) and has even fence and double-dollar counts: it
\* is fullContent as it was after the latest delta that left it balanced, and
\* so depends on the boundaries of the deltas.
C18_SafeIsLongestBalancedDeltaPrefix ==
    \A t \in Turns :
        (Latest(t) /\ InFlight(t)) =>
            /\ fullContent \in DeltaPrefixes(t)
            /\ renderedContent = LongestBalancedDeltaPrefix(t)

\* C18 witness: after two deltas the text rendered is the first delta, and a
\* longer prefix of fullContent, ending inside the second delta, has even
\* counts.
C18_Witness ==
    \E t \in Turns :
        /\ Latest(t) /\ InFlight(t)
        /\ Len(DeltasReceived(t)) = 2
        /\ renderedContent = DeltasReceived(t)[1]
        /\ ~EvenCounts(fullContent)
        /\ Len(LongestBalancedPrefix(fullContent)) > Len(renderedContent) + 2

\* Turn t has met a data: line whose payload JSON.parse rejects.
MetMalformed(t) == \E i \in 1..Len(events[t]) : events[t][i].type = "throw"

\* C19: a turn that has met a data: line whose payload does not parse is not
\* stopped by it: it goes on reading and dispatching, and once it has ended,
\* the deltas it applied are those of all the well-formed delta frames of the
\* body and loading is cleared while the turn is the latest.
C19_MalformedLineSkipped ==
    \A t \in Turns :
        MetMalformed(t) =>
            /\ pc[t] \in {"read", "loop", "done"}
            /\ pc[t] = "done" =>
                   /\ DeltasReceived(t) =
                          TextsOf(SelectSeq(WireFrames(sent[t]), IsDelta))
                   /\ Latest(t) => ~loading

\* The conversation alternates user, assistant, starting with user.
Alternates(m) ==
    /\ Even(Len(m))
    /\ \A i \in 1..Len(m) :
           m[i].role = IF Even(i) THEN "assistant" ELSE "user"

\* The step is an accepted submit: a sendMessage call passes its guard.
Submitted == \E t \in Turns : pc[t] = "idle" /\ pc'[t] = "fetch"

\* C20: the conversation always alternates user, assistant, starting with
\* user. A step changes its length exactly when it is an accepted submit,
\* which appends the user message with the submitted text and then an empty
\* assistant message and leaves every message before them as it was; every
\* other step (a delta, a terminal event, the final re-check) leaves all
\* messages but the last as they were, and the role of the last.
C20_OnlyLastMessageChanges ==
    [][LET n == Len(messages)
       IN  /\ Alternates(messages) /\ Alternates(messages')
           /\ Submitted <=> Len(messages') # n
           /\ Submitted =>
                  messages' = messages \o <<Message("user", input),
                                            Message("assistant", Empty)>>
           /\ (~Submitted /\ n > 0) =>
                  /\ SubSeq(messages', 1, n - 1) = SubSeq(messages, 1, n - 1)
                  /\ messages'[n].role = messages[n].role
      ]_vars

\* C20 witness: the second turn has received a delta, the reply of the first
\* turn standing in the second message.
C20_Witness ==
    /\ Len(messages) = 4
    /\ messages[2].content # Empty
    /\ messages[4].content # Empty
    /\ messages[4].content # messages[2].content
    /\ pc[2] \in {"read", "loop"}

=============================================================================
